---- MODULE Spec2Model ----
(***************************************************************************)
(* Sluice Gate Flow Calculator (sluice_gate_app.py).                       *)
(*                                                                         *)
(* The script is rerun from top to bottom whenever a widget changes.  Tab  *)
(* 1 evaluates the two discharge formulas for a pair of sliders; tabs 2-3  *)
(* read one upstream level, three sill elevations and sixteen gate         *)
(* openings and build the per-gate table and the two totals.               *)
(*                                                                         *)
(* Numbers.  The program computes in binary floating point, rounding after *)
(* every operation.  The model computes in decimal fixed point with Scale  *)
(* units per metre (three decimals, the step of the number inputs and the  *)
(* precision the app displays), rounding after every operation as well,    *)
(* towards zero.  The integer v stands for the number v / Scale.           *)
(***************************************************************************)
EXTENDS Integers, Sequences, FiniteSets, TLC

Scale == 1000

NumGates == 16

\* Bounds of the exploration.
MaxEdits == 2
MaxGSteps == 40
MaxHSteps == 60

\* The decimal literal n/d as a fixed-point number.
Dec(n, d) == (n * Scale) \div d

----------------------------------------------------------------------------
(* Arithmetic: every operation rounds its exact result towards zero.       *)

Abs(x) == IF x < 0 THEN -x ELSE x

Sgn(x) == IF x < 0 THEN -1 ELSE 1

Max(x, y) == IF x >= y THEN x ELSE y

Min(x, y) == IF x <= y THEN x ELSE y

\* x * y.  The product is formed in two parts so that no intermediate
\* exceeds the integer range; the value is exactly trunc(x*y / Scale).
FMul(x, y) ==
    LET m == Abs(x)
        n == Abs(y)
    IN  Sgn(x) * Sgn(y) * (m * (n \div Scale) + (m * (n % Scale)) \div Scale)

\* x / y for y # 0.
FDiv(x, y) == Sgn(x) * Sgn(y) * ((Abs(x) * Scale) \div Abs(y))

\* x ** 2
FPow2(x) == FMul(x, x)

\* The integer square root of n >= 0, by bisection on [lo, hi).
RECURSIVE IsqrtIn(_, _, _)
IsqrtIn(n, lo, hi) ==
    IF hi - lo <= 1 THEN lo
    ELSE LET mid == (lo + hi) \div 2
         IN  IF mid * mid <= n THEN IsqrtIn(n, mid, hi) ELSE IsqrtIn(n, lo, mid)

Isqrt(n) == IsqrtIn(n, 0, 46341)

\* math.sqrt(x) for x >= 0.
FSqrt(x) == Isqrt(x * Scale)

\* sum(s) of a list of numbers.
RECURSIVE SeqSum(_)
SeqSum(s) == IF s = <<>> THEN 0 ELSE Head(s) + SeqSum(Tail(s))

\* [x] * n
Rep(x, n) == [i \in 1..n |-> x]

----------------------------------------------------------------------------
(* The two formulas, with their default coefficients.                      *)

Cd_vt_chow == Dec(58, 100)

Cd_corps_ref == Dec(61, 100)

b == Dec(1591, 100)

g == Dec(981, 100)

Sentinel == Dec(7, 10)

\* Mutant of vt_chow_guard: a closed gate (G = 0) passes the guard.
vt_chow_guard_strict(G, h) == G < 0 \/ h <= 0

\* The guard of gate_flow_vt_chow.
vt_chow_guard(G, h) == G <= 0 \/ h <= 0

\* Mutant of vt_chow_radicand: the factor 2 is missing.
vt_chow_radicand_no_two(G, h) == FMul(g, h)

\* The radicand 2*g*h of gate_flow_vt_chow.
vt_chow_radicand(G, h) == FMul(FMul(2 * Scale, g), h)

\* gate_flow_vt_chow raises (math.sqrt of a negative number).
vt_chow_raises(G, h) == ~vt_chow_guard(G, h) /\ vt_chow_radicand(G, h) < 0

\* Mutant of gate_flow_vt_chow: out-of-domain inputs give 0, not the sentinel.
gate_flow_vt_chow_zero(G, h) ==
    IF vt_chow_guard(G, h) THEN 0
    ELSE FMul(FMul(FMul(Cd_vt_chow, b), G), FSqrt(vt_chow_radicand(G, h)))

gate_flow_vt_chow(G, h) ==
    IF vt_chow_guard(G, h) THEN Sentinel
    ELSE FMul(FMul(FMul(Cd_vt_chow, b), G), FSqrt(vt_chow_radicand(G, h)))

\* Mutant of corps_ref_guard: the boundary h = Cd*G passes the guard.
corps_ref_guard_open(G, h) == G <= 0 \/ h <= 0 \/ h < FMul(Cd_corps_ref, G)

\* Mutant of corps_ref_guard: the contraction term is not checked.
corps_ref_guard_no_contraction(G, h) == G <= 0 \/ h <= 0

\* The guard of gate_flow_corps_ref.
corps_ref_guard(G, h) == G <= 0 \/ h <= 0 \/ h <= FMul(Cd_corps_ref, G)

\* The radicand 2*g*(h - Cd*G) of the numerator.
corps_ref_num_radicand(G, h) ==
    FMul(FMul(2 * Scale, g), h - FMul(Cd_corps_ref, G))

\* The radicand 1 - (Cd*G/h)**2 of the denominator (h # 0).
corps_ref_den_radicand(G, h) ==
    Scale - FPow2(FDiv(FMul(Cd_corps_ref, G), h))

\* gate_flow_corps_ref raises: math.sqrt of a negative number, or a
\* division by zero, in the order the function evaluates them.
corps_ref_raises(G, h) ==
    /\ ~corps_ref_guard(G, h)
    /\ \/ corps_ref_num_radicand(G, h) < 0
       \/ h = 0
       \/ corps_ref_den_radicand(G, h) < 0
       \/ FSqrt(corps_ref_den_radicand(G, h)) = 0

gate_flow_corps_ref(G, h) ==
    IF corps_ref_guard(G, h) THEN Sentinel
    ELSE LET numerator ==
                 FMul(FMul(FMul(Cd_corps_ref, b), G),
                      FSqrt(corps_ref_num_radicand(G, h)))
             denominator == FSqrt(corps_ref_den_radicand(G, h))
         IN  FDiv(numerator, denominator)

\* Mutant of percent_error: the absolute value is missing.
percent_error_signed(x, y) ==
    IF y # 0 THEN FMul(FDiv(x - y, y), 100 * Scale) ELSE 0

\* One element of relative_error: the percent deviation of flow x from
\* flow y.
percent_error(x, y) ==
    IF y # 0 THEN Abs(FMul(FDiv(x - y, y), 100 * Scale)) ELSE 0

----------------------------------------------------------------------------
(* State.                                                                  *)

VARIABLES
    calc_G, calc_h,             \* tab 1: the two sliders
    q1, q2,                     \* tab 1: the two flows shown
    SWP,                        \* tab 2: upstream level
    sill_1_to_4, sill_5_to_8, sill_9_to_16,
    openings,                   \* tab 2: the sixteen gate openings
    sill, water_depth,          \* tab 3: per-gate lists
    flow_vt_chow, flow_corps_ref, relative_error,
    df,                         \* tab 3: the table, one record per row
    total_vt_chow, total_corps_ref,
    raised,                     \* the last run ended in an exception
    edits                       \* number of tab-2 widget changes so far

inputs1 == <<calc_G, calc_h>>

outputs1 == <<q1, q2>>

inputs2 == <<SWP, sill_1_to_4, sill_5_to_8, sill_9_to_16, openings>>

outputs3 == <<sill, water_depth, flow_vt_chow, flow_corps_ref, relative_error,
              df, total_vt_chow, total_corps_ref>>

vars == <<inputs1, outputs1, inputs2, outputs3, raised, edits>>

\* Widget values explored.
SliderStep == Dec(5, 100)

SliderG == {k * SliderStep : k \in 0..MaxGSteps}

\* Every twentieth-of-a-metre position of the depth slider, and the two
\* positions on the guard's boundary h = Cd*G for G = 1 and G = 2.
SliderH ==
    {k * SliderStep : k \in 0..MaxHSteps} \cup {Dec(61, 100), Dec(122, 100)}

SWP_default == Dec(18120, 100)

sill_1_to_4_default == Dec(18005, 100)

sill_5_to_8_default == Dec(17975, 100)

sill_9_to_16_default == Dec(18005, 100)

\* Levels at the lower sill, between the sills and above them; the last one
\* puts the depth of a gate with sill 180.05 one thousandth above Cd*G for
\* G = 2.
LevelValues ==
    {Dec(17975, 100), Dec(17990, 100), SWP_default, Dec(181271, 1000)}

SillValues == {Dec(17975, 100), Dec(18005, 100)}

OpeningValues == {0, Dec(1, 10), Dec(2, 1)}

----------------------------------------------------------------------------
(* Tab 3: the lists, the table and the totals computed from the inputs.    *)

\* Mutant of sill_list: gates 5-8 take the sill of gates 1-4.
sill_list_two_groups(s14, s58, s916) == Rep(s14, 8) \o Rep(s916, 8)

sill_list(s14, s58, s916) == Rep(s14, 4) \o Rep(s58, 4) \o Rep(s916, 8)

\* Mutant of water_depth_list: the depth is not clamped at zero.
water_depth_list_unclamped(level, sl) == [i \in 1..Len(sl) |-> level - sl[i]]

water_depth_list(level, sl) == [i \in 1..Len(sl) |-> Max(level - sl[i], 0)]

flow_vt_chow_list(op, wd) ==
    [i \in 1..Min(Len(op), Len(wd)) |-> gate_flow_vt_chow(op[i], wd[i])]

flow_corps_ref_list(op, wd) ==
    [i \in 1..Min(Len(op), Len(wd)) |-> gate_flow_corps_ref(op[i], wd[i])]

relative_error_list(fa, fb) ==
    [i \in 1..Min(Len(fa), Len(fb)) |-> percent_error(fa[i], fb[i])]

data_frame(sl, op, wd, fa, fb, re) ==
    [i \in 1..NumGates |->
        [Gate |-> i, Sill |-> sl[i], Opening |-> op[i], Depth |-> wd[i],
         FlowA |-> fa[i], FlowB |-> fb[i], Error |-> re[i]]]

\* Mutant of total_flow: the last gate is left out of the sum.
total_flow_first_fifteen(fl) == SeqSum(SubSeq(fl, 1, Len(fl) - 1))

\* sum(flow_vt_chow), sum(flow_corps_ref)
total_flow(fl) == SeqSum(fl)

\* Some formula call of tab 3 raises.
tab3_raises(level, s14, s58, s916, op) ==
    LET sl == sill_list(s14, s58, s916)
        wd == water_depth_list(level, sl)
    IN  \E i \in 1..Min(Len(op), Len(wd)) :
            vt_chow_raises(op[i], wd[i]) \/ corps_ref_raises(op[i], wd[i])

\* The rerun of tabs 2-3 with the given widget values.
Tab3(level, s14, s58, s916, op) ==
    /\ SWP' = level
    /\ sill_1_to_4' = s14
    /\ sill_5_to_8' = s58
    /\ sill_9_to_16' = s916
    /\ openings' = op
    /\ IF tab3_raises(level, s14, s58, s916, op)
       THEN /\ raised' = TRUE
            /\ UNCHANGED outputs3
       ELSE /\ raised' = FALSE
            /\ sill' = sill_list(s14, s58, s916)
            /\ water_depth' = water_depth_list(level, sill')
            /\ flow_vt_chow' = flow_vt_chow_list(op, water_depth')
            /\ flow_corps_ref' = flow_corps_ref_list(op, water_depth')
            /\ relative_error' = relative_error_list(flow_vt_chow', flow_corps_ref')
            /\ df' = data_frame(sill', op, water_depth', flow_vt_chow',
                                flow_corps_ref', relative_error')
            /\ total_vt_chow' = total_flow(flow_vt_chow')
            /\ total_corps_ref' = total_flow(flow_corps_ref')

\* The rerun of tab 1 with the given slider values.
Tab1(Gv, hv) ==
    /\ calc_G' = Gv
    /\ calc_h' = hv
    /\ IF vt_chow_raises(Gv, hv) \/ corps_ref_raises(Gv, hv)
       THEN /\ raised' = TRUE
            /\ UNCHANGED outputs1
       ELSE /\ raised' = FALSE
            /\ q1' = gate_flow_vt_chow(Gv, hv)
            /\ q2' = gate_flow_corps_ref(Gv, hv)

----------------------------------------------------------------------------
(* Init: the first run, every widget at its default.                       *)

Init ==
    /\ calc_G = Dec(5, 10)
    /\ calc_h = Dec(1, 1)
    /\ q1 = gate_flow_vt_chow(calc_G, calc_h)
    /\ q2 = gate_flow_corps_ref(calc_G, calc_h)
    /\ SWP = SWP_default
    /\ sill_1_to_4 = sill_1_to_4_default
    /\ sill_5_to_8 = sill_5_to_8_default
    /\ sill_9_to_16 = sill_9_to_16_default
    /\ openings = Rep(0, NumGates)
    /\ sill = sill_list(sill_1_to_4, sill_5_to_8, sill_9_to_16)
    /\ water_depth = water_depth_list(SWP, sill)
    /\ flow_vt_chow = flow_vt_chow_list(openings, water_depth)
    /\ flow_corps_ref = flow_corps_ref_list(openings, water_depth)
    /\ relative_error = relative_error_list(flow_vt_chow, flow_corps_ref)
    /\ df = data_frame(sill, openings, water_depth, flow_vt_chow,
                       flow_corps_ref, relative_error)
    /\ total_vt_chow = total_flow(flow_vt_chow)
    /\ total_corps_ref = total_flow(flow_corps_ref)
    /\ raised = FALSE
    /\ edits = 0

(* Tab 1.  A slider change reruns the script; tabs 2-3 recompute from      *)
(* unchanged widget values the values they already hold.                   *)

SetSliderG(v) ==
    /\ v # calc_G
    /\ Tab1(v, calc_h)
    /\ UNCHANGED <<inputs2, outputs3, edits>>

SetSliderH(v) ==
    /\ v # calc_h
    /\ Tab1(calc_G, v)
    /\ UNCHANGED <<inputs2, outputs3, edits>>

(* Tab 2.  A number-input change reruns the script; tab 1 recomputes from  *)
(* unchanged sliders the values it already holds.                          *)

SetSWP(v) ==
    /\ edits < MaxEdits
    /\ v # SWP
    /\ Tab3(v, sill_1_to_4, sill_5_to_8, sill_9_to_16, openings)
    /\ edits' = edits + 1
    /\ UNCHANGED <<inputs1, outputs1>>

SetSill_1_to_4(v) ==
    /\ edits < MaxEdits
    /\ v # sill_1_to_4
    /\ Tab3(SWP, v, sill_5_to_8, sill_9_to_16, openings)
    /\ edits' = edits + 1
    /\ UNCHANGED <<inputs1, outputs1>>

SetSill_5_to_8(v) ==
    /\ edits < MaxEdits
    /\ v # sill_5_to_8
    /\ Tab3(SWP, sill_1_to_4, v, sill_9_to_16, openings)
    /\ edits' = edits + 1
    /\ UNCHANGED <<inputs1, outputs1>>

SetSill_9_to_16(v) ==
    /\ edits < MaxEdits
    /\ v # sill_9_to_16
    /\ Tab3(SWP, sill_1_to_4, sill_5_to_8, v, openings)
    /\ edits' = edits + 1
    /\ UNCHANGED <<inputs1, outputs1>>

SetGate(i, v) ==
    /\ edits < MaxEdits
    /\ v # openings[i]
    /\ Tab3(SWP, sill_1_to_4, sill_5_to_8, sill_9_to_16,
            [openings EXCEPT ![i] = v])
    /\ edits' = edits + 1
    /\ UNCHANGED <<inputs1, outputs1>>

CalcNext ==
    \/ \E v \in SliderG : SetSliderG(v)
    \/ \E v \in SliderH : SetSliderH(v)

Next ==
    \/ \E v \in LevelValues : SetSWP(v)
    \/ \E v \in SillValues : SetSill_1_to_4(v)
    \/ \E v \in SillValues : SetSill_5_to_8(v)
    \/ \E v \in SillValues : SetSill_9_to_16(v)
    \/ \E i \in 1..NumGates, v \in OpeningValues : SetGate(i, v)

\* Tabs 2-3: the aggregator.
Spec == Init /\ [][Next]_vars

\* Tab 1: the two formulas on the slider values.
SpecCalc == Init /\ [][CalcNext]_vars

----------------------------------------------------------------------------
(* Properties.                                                             *)

\* The sill of gate i by its group.
GroupSill(i) ==
    IF i <= 4 THEN sill_1_to_4 ELSE IF i <= 8 THEN sill_5_to_8 ELSE sill_9_to_16

\* r is the square root of the fixed-point number x, rounded down.
IsRoot(r, x) == r * r <= x * Scale /\ x * Scale < (r + 1) * (r + 1)

\* Product and quotient of non-negative fixed-point numbers, rounded down.
Prod(x, y) == (x * y) \div Scale

Quot(x, y) == (x * Scale) \div y

\* Arguments on both sides of zero at which the formulas are evaluated
\* directly (the widgets never produce a negative opening or depth).
FnInputs == {-Dec(1, 1), -SliderStep, 0, SliderStep, Dec(1, 1)}

\* C1: FormulaA returns exactly 0.7 whenever G <= 0 or h <= 0 (G = 0, h = 1.0
\* included) and Cd*b*G*sqrt(2*g*h) with Cd = 0.58, b = 15.91, g = 9.81
\* whenever G > 0 and h > 0.
C1_FormulaA ==
    /\ (calc_G <= 0 \/ calc_h <= 0) => q1 = Dec(7, 10)
    /\ (calc_G > 0 /\ calc_h > 0) =>
         LET coeff == Prod(Prod(Dec(58, 100), Dec(1591, 100)), calc_G)
             rad == Prod(2 * Dec(981, 100), calc_h)
         IN  \E r \in 0..8000 : IsRoot(r, rad) /\ q1 = Prod(coeff, r)
    /\ \A G \in FnInputs, h \in FnInputs :
         (G <= 0 \/ h <= 0) => gate_flow_vt_chow(G, h) = Dec(7, 10)

\* C1 witness: the sliders at G = 0, h = 1.0 and the sentinel shown.
C1_Witness == calc_G = 0 /\ calc_h = Dec(1, 1) /\ q1 = Dec(7, 10)

\* The numerator/denominator formula of FormulaB at (G, h), written out.
C2_Formula(G, h, q) ==
    LET cg == Prod(Dec(61, 100), G)
        coeff == Prod(Prod(Dec(61, 100), Dec(1591, 100)), G)
        radn == Prod(2 * Dec(981, 100), h - cg)
        ratio == Quot(cg, h)
        radd == Dec(1, 1) - Prod(ratio, ratio)
    IN  \E rn \in 0..8000 :
          /\ IsRoot(rn, radn)
          /\ \E rd \in 1..Scale :
               IsRoot(rd, radd) /\ q = Quot(Prod(coeff, rn), rd)

\* C2: FormulaB returns exactly 0.7 whenever G <= 0, h <= 0 or h <= 0.61*G
\* (h = 0.61*G included) and the numerator/denominator formula otherwise.
C2_FormulaB ==
    /\ (calc_G <= 0 \/ calc_h <= 0 \/ 100 * calc_h <= 61 * calc_G)
         => q2 = Dec(7, 10)
    /\ (calc_G > 0 /\ calc_h > 0 /\ 100 * calc_h > 61 * calc_G)
         => C2_Formula(calc_G, calc_h, q2)
    /\ \A G \in FnInputs, h \in FnInputs :
         (G <= 0 \/ h <= 0 \/ 100 * h <= 61 * G)
            => gate_flow_corps_ref(G, h) = Dec(7, 10)

\* C2 witness: the sliders exactly on the boundary h = 0.61*G (G = 2,
\* h = 1.22) and the sentinel shown.
C2_Witness == calc_G = Dec(2, 1) /\ calc_h = Dec(122, 100) /\ q2 = Dec(7, 10)

\* C3: every gate's water depth is max(level - sill, 0), never negative;
\* level 181.20 over sill 180.05 gives 1.15 for gates 1-4, and a level at or
\* below the sill gives 0.
C3_WaterDepth ==
    /\ Len(water_depth) = NumGates
    /\ \A i \in 1..NumGates :
         /\ water_depth[i] >= 0
         /\ SWP > GroupSill(i) => water_depth[i] = SWP - GroupSill(i)
         /\ SWP <= GroupSill(i) => water_depth[i] = 0
    /\ (SWP = Dec(18120, 100) /\ sill_1_to_4 = Dec(18005, 100))
         => \A i \in 1..4 : water_depth[i] = Dec(115, 100)

\* C3 witness: the level below the sill of gates 1-4 and above the sill of
\* gates 5-8, after an edit.
C3_Witness ==
    /\ edits > 0
    /\ SWP < sill_1_to_4 /\ water_depth[1] = 0
    /\ SWP > sill_5_to_8 /\ water_depth[5] > 0

\* C4: the table has exactly 16 records in gate order 1..16; record i carries
\* the i-th opening and the sill of its group (1-4, 5-8, 9-16), and its depth,
\* flows and percent deviation are those of its own opening and sill.
C4_Records ==
    /\ DOMAIN df = 1..16
    /\ \A i \in 1..16 :
         /\ df[i].Gate = i
         /\ df[i].Opening = openings[i]
         /\ df[i].Sill = GroupSill(i)
         /\ df[i].Depth = Max(SWP - df[i].Sill, 0)
         /\ df[i].FlowA = gate_flow_vt_chow(df[i].Opening, df[i].Depth)
         /\ df[i].FlowB = gate_flow_corps_ref(df[i].Opening, df[i].Depth)
         /\ df[i].Error = percent_error(df[i].FlowA, df[i].FlowB)

\* C4 witness: gates of different groups with different openings and
\* different sills, each in its own record.
C4_Witness ==
    /\ openings[3] = Dec(1, 10) /\ openings[6] = Dec(2, 1) /\ openings[9] = 0
    /\ sill_1_to_4 # sill_5_to_8
    /\ df[3].Opening = Dec(1, 10) /\ df[6].Opening = Dec(2, 1)
    /\ df[3].FlowA # df[6].FlowA /\ df[6].FlowA # df[9].FlowA

\* C5: every percent deviation is abs((flowA - flowB) / flowB * 100) when
\* flowB # 0 and 0 when flowB = 0, and is never negative.
C5_PercentDeviation ==
    /\ \A i \in 1..NumGates :
         LET fa == df[i].FlowA
             fb == df[i].FlowB
         IN  /\ df[i].Error >= 0
             /\ df[i].Error = relative_error[i]
             /\ fb > 0 => df[i].Error = Quot(Abs(fa - fb), fb) * 100
             /\ fb = 0 => df[i].Error = 0
    /\ \A x \in {-Sentinel, 0, Sentinel, Dec(20, 1)} : percent_error(x, 0) = 0

\* C5 witness: a gate whose FormulaA flow is below its FormulaB flow and a
\* gate where it is above, both with a positive deviation.
C5_Witness ==
    \E i, j \in 1..NumGates :
        /\ df[i].FlowA < df[i].FlowB /\ df[i].Error > 0
        /\ df[j].FlowA > df[j].FlowB /\ df[j].Error > 0

\* C6: no run raises: wherever FormulaB's guard passes, the numerator
\* radicand 2*g*(h - Cd*G) is positive, the denominator radicand
\* 1 - (Cd*G/h)^2 is positive and the denominator is not zero; wherever
\* FormulaA's guard passes its radicand is not negative.
C6_NoUndefinedOperation ==
    /\ raised = FALSE
    /\ \A i \in 1..NumGates :
         LET G == openings[i]
             h == water_depth[i]
         IN  /\ ~vt_chow_guard(G, h) => vt_chow_radicand(G, h) >= 0
             /\ ~corps_ref_guard(G, h) =>
                  /\ corps_ref_num_radicand(G, h) > 0
                  /\ h # 0
                  /\ corps_ref_den_radicand(G, h) > 0
                  /\ FSqrt(corps_ref_den_radicand(G, h)) # 0

\* C6 witness: a gate whose depth is one thousandth above Cd*G, so that the
\* guard passes with the smallest margin, and FormulaB evaluated.
C6_Witness ==
    \E i \in 1..NumGates :
        /\ openings[i] = Dec(2, 1)
        /\ water_depth[i] = FMul(Cd_corps_ref, openings[i]) + 1
        /\ df[i].FlowB > Sentinel
        /\ raised = FALSE

\* C7: each run total is the sum of that formula's sixteen per-gate flows as
\* they stand in the records, sentinels included.
C7_Totals ==
    /\ total_vt_chow =
         df[1].FlowA + df[2].FlowA + df[3].FlowA + df[4].FlowA
         + df[5].FlowA + df[6].FlowA + df[7].FlowA + df[8].FlowA
         + df[9].FlowA + df[10].FlowA + df[11].FlowA + df[12].FlowA
         + df[13].FlowA + df[14].FlowA + df[15].FlowA + df[16].FlowA
    /\ total_corps_ref =
         df[1].FlowB + df[2].FlowB + df[3].FlowB + df[4].FlowB
         + df[5].FlowB + df[6].FlowB + df[7].FlowB + df[8].FlowB
         + df[9].FlowB + df[10].FlowB + df[11].FlowB + df[12].FlowB
         + df[13].FlowB + df[14].FlowB + df[15].FlowB + df[16].FlowB

\* C7 witness: a run with an open gate next to fifteen sentinel gates.
C7_Witness ==
    /\ df[16].FlowA > Sentinel /\ df[16].FlowB > Sentinel
    /\ df[1].FlowA = Sentinel
    /\ total_vt_chow > NumGates * Sentinel
    /\ total_corps_ref > NumGates * Sentinel

\* The inputs on FormulaA's and FormulaB's valid domain.
ValidA(G, h) == G > 0 /\ h > 0

ValidB(G, h) == G > 0 /\ h > 0 /\ 100 * h > 61 * G

\* C8: on the valid domain both formulas are strictly increasing in G for
\* fixed h and in h for fixed G: of two valid inputs that differ in one
\* argument only, the larger one yields the strictly larger flow.
C8_StrictlyIncreasing ==
    /\ \A G2 \in SliderG :
         /\ (G2 > calc_G /\ ValidA(calc_G, calc_h) /\ ValidA(G2, calc_h))
              => gate_flow_vt_chow(G2, calc_h) > q1
         /\ (G2 > calc_G /\ ValidB(calc_G, calc_h) /\ ValidB(G2, calc_h))
              => gate_flow_corps_ref(G2, calc_h) > q2
    /\ \A h2 \in SliderH :
         /\ (h2 > calc_h /\ ValidA(calc_G, calc_h) /\ ValidA(calc_G, h2))
              => gate_flow_vt_chow(calc_G, h2) > q1
         /\ (h2 > calc_h /\ ValidB(calc_G, calc_h) /\ ValidB(calc_G, h2))
              => gate_flow_corps_ref(calc_G, h2) > q2

\* C9 as stated: for G = 0.5 and h = 1.0 FormulaA's value rounds to 20.33 at
\* two decimal places.
C9_RoundsTo2033 ==
    (calc_G = Dec(5, 10) /\ calc_h = Dec(1, 1))
        => (Dec(20325, 1000) <= q1 /\ q1 < Dec(20335, 1000))

\* C9, amended: for G = 0.5 and h = 1.0 FormulaA returns
\* 0.58 * 15.91 * 0.5 * sqrt(2*9.81*1.0), which is 20.437 to within one
\* hundredth (about 20.44, not 20.33).
C9_About2044 ==
    (calc_G = Dec(5, 10) /\ calc_h = Dec(1, 1))
        => /\ Abs(q1 - Dec(20437, 1000)) <= Dec(1, 100)
           /\ \E r \in 0..8000 :
                /\ IsRoot(r, Prod(2 * Dec(981, 100), Dec(1, 1)))
                /\ q1 = Prod(Prod(Prod(Dec(58, 100), Dec(1591, 100)),
                                  Dec(5, 10)), r)

\* C9 witness: the sliders at G = 0.5, h = 1.0 with both formulas evaluated.
C9_Witness ==
    /\ calc_G = Dec(5, 10) /\ calc_h = Dec(1, 1)
    /\ q1 > Dec(20, 1)
    /\ q2 # Sentinel

\* Gate i is closed, or its upstream level is at or below its sill.
ClosedOrDry(i) == openings[i] = 0 \/ SWP <= GroupSill(i)

\* C10: a gate with opening 0 or with the level at or below its sill gets
\* flowA = flowB = 0.7 and percent deviation 0; when all sixteen gates are so,
\* both totals are 16 * 0.7 = 11.2; no total is below 0.7 times the number of
\* such gates.
C10_SentinelTotals ==
    /\ \A i \in 1..NumGates :
         ClosedOrDry(i) =>
            /\ df[i].FlowA = Dec(7, 10)
            /\ df[i].FlowB = Dec(7, 10)
            /\ df[i].Error = 0
    /\ (\A i \in 1..NumGates : ClosedOrDry(i))
         => (total_vt_chow = Dec(112, 10) /\ total_corps_ref = Dec(112, 10))
    /\ LET n == Cardinality({i \in 1..NumGates : ClosedOrDry(i)})
       IN  total_vt_chow >= n * Dec(7, 10) /\ total_corps_ref >= n * Dec(7, 10)

\* C10 witness: sixteen gates that are closed or dry, one of them open but
\* dry, and both totals at 11.2.
C10_Witness ==
    /\ \A i \in 1..NumGates : ClosedOrDry(i)
    /\ openings[1] > 0 /\ SWP < sill_1_to_4
    /\ total_vt_chow = Dec(112, 10) /\ total_corps_ref = Dec(112, 10)

====
